---- MODULE Spec2Model ----
(***************************************************************************)
(* Cart service (getCartByUser, addProductToCart, updateProductInCart,     *)
(* deleteProductFromCart, checkout) of the Okart backend, as a state       *)
(* machine.  Every request is an asynchronous unit of work; an action is   *)
(* the code that runs between two suspension points (await) of a request,  *)
(* together with the persistence effect the suspension waits for.          *)
(***************************************************************************)
EXTENDS Integers, Sequences, FiniteSets, TLC

\* ------------------------------------------------------------------ bounds
NUsers == 2
NProcs == 2
MaxQty == 2
MaxCalls == 3
MaxConcurrentCalls == 2
MaxTicks == 3
MaxElapsed == 1
\* the clock when the service starts, in seconds since the epoch
Epoch0 == 1700000000

Users == 1..NUsers
Procs == 1..NProcs
Quantities == 1..MaxQty

\* The product collection read by getProductById: products 1 and 2 exist,
\* id 3 is an id no product has.
Catalog == {1, 2}
ProductIds == Catalog \cup {3}
Cost(id) == IF id = 1 THEN 10 ELSE 5
\* walletMoney of the users when the service starts
InitWallet(u) == IF u = 1 THEN 100 ELSE 20

\* http-status codes used by the service
NOT_FOUND == 404
BAD_REQUEST == 400
INTERNAL_SERVER_ERROR == 500

ApiError(status, message) == [status |-> status, message |-> message]
OK == [status |-> 200, message |-> "ok"]
\* a rejection of the persistence layer that is no ApiError
PersistenceError == [status |-> 0, message |-> "persistence failure"]
None == [status |-> 0, message |-> "pending"]

ErrNoCartGet == ApiError(NOT_FOUND, "User does not have a cart")
ErrProductMissing == ApiError(BAD_REQUEST, "Product doesn't exist in database")
ErrCreateFailed == ApiError(INTERNAL_SERVER_ERROR, "Failed to add product to cart")
ErrDuplicate == ApiError(BAD_REQUEST, "Product already in cart. Use the cart sidebar to update or remove product from cart")
ErrNoCartUpdate == ApiError(BAD_REQUEST, "User does not have a cart. Use POST to create cart and add a product")
ErrNotInCart == ApiError(BAD_REQUEST, "Product not in cart")
ErrNoCartDelete == ApiError(BAD_REQUEST, "User does not have a cart")
ErrCartNotFound == ApiError(NOT_FOUND, "Cart not found")
ErrCartEmpty == ApiError(BAD_REQUEST, "Cart is Empty")
ErrAddress == ApiError(BAD_REQUEST, "Please set the default address")
ErrBalance == ApiError(BAD_REQUEST, "Insuffiecient Balance.")

VARIABLES
    carts,          \* the Cart collection: per email, the documents with that email, in insertion order
    wallet,         \* the User collection: persisted walletMoney per user
    inflight,       \* writes issued by checkout and not awaited, not yet settled
    pc,             \* per request slot: position in the handler
    op,             \* per request slot: the operation called
    usr,            \* per request slot: the user argument
    productId,      \* per request slot: the productId argument
    quantity,       \* per request slot: the quantity argument
    cart,           \* per request slot: the cart document held in memory
    walletMoney,    \* per request slot: user.walletMoney of the user object held in memory
    nonDefaultAddress, \* per request slot: what user.hasSetNonDefaultAddress() resolves to
    totalCartValue, \* per request slot: checkout's totalCartValue
    checks,         \* per request slot: the preconditions checkout has evaluated, in order
    result,         \* per request slot: how the call ended
    ncalls,         \* number of calls made
    clock,          \* the wall clock (Date.now()): seconds since the epoch and milliseconds
    tok,            \* the last call of generateToken: its arguments, locals and the signed payload
    auth            \* the last call of generateAuthTokens: the configured lifetime and the envelope

vars == <<carts, wallet, inflight, pc, op, usr, productId, quantity,
          cart, walletMoney, nonDefaultAddress, totalCartValue, checks, result, ncalls,
          clock, tok, auth>>

tokenVars == <<clock, tok, auth>>
cartVars == <<carts, wallet, inflight, pc, op, usr, productId, quantity,
              cart, walletMoney, nonDefaultAddress, totalCartValue, checks, result, ncalls>>

db == <<carts, wallet, inflight>>
args == <<op, usr, productId, quantity, walletMoney, nonDefaultAddress>>

\* ---------------------------------------------------------- token service
\* Times are kept in mixed radix so that a number of minutes up to the
\* threshold, times 60, stays exact: a duration or instant is
\* [min, sec, ms] with 0 <= sec < 60 and 0 <= ms < 1000, standing for
\* min * 60000 + sec * 1000 + ms milliseconds.
Threshold == 1000000000

Normal(m, sc, ms) ==
    LET s2 == sc + (ms \div 1000) IN
    [min |-> m + (s2 \div 60), sec |-> s2 % 60, ms |-> ms % 1000]

FromSeconds(n) == Normal(0, n, 0)
FromMinutes(n) == Normal(n, 0, 0)
FromClock(c) == Normal(0, c.sec, c.ms)
Plus(a, b) == Normal(a.min + b.min, a.sec + b.sec, a.ms + b.ms)
Minus(a, b) == Normal(a.min - b.min, a.sec - b.sec, a.ms - b.ms)
Leq(a, b) ==
    \/ a.min < b.min
    \/ a.min = b.min /\ a.sec < b.sec
    \/ a.min = b.min /\ a.sec = b.sec /\ a.ms <= b.ms
Less(a, b) == Leq(a, b) /\ a # b

\* the clock after k ticks of half a second
After(c, k) ==
    LET t == Normal(0, c.sec % 60, c.ms + 500 * k) IN
    [sec |-> (c.sec - (c.sec % 60)) + 60 * t.min + t.sec, ms |-> t.ms]

\* Math.floor(Date.now() / 1000)
UnixSeconds(c) == c.sec

TokenTypes == {"access", "refresh"}

NoToken == [called |-> FALSE, userId |-> 1, expires |-> 0, type |-> "access",
            now |-> 0, expiresIn |-> FromSeconds(0),
            payload |-> [sub |-> 1, type |-> "access", iat |-> 0, exp |-> FromSeconds(0)]]
NoAuth == [called |-> FALSE, user |-> 1, minutes |-> 0, at |-> FromSeconds(0),
           expires |-> FromSeconds(0),
           token |-> [sub |-> 1, type |-> "access", iat |-> 0, exp |-> FromSeconds(0)]]

\* ---------------------------------------------------------------- helpers
Product(id) == [id |-> id, cost |-> Cost(id)]
Item(id, q) == [product |-> Product(id), quantity |-> q]

NoCart == [found |-> FALSE, idx |-> 0, cartItems |-> <<>>]

\* Cart.findOne({email}): the first document with that email, or null
FindOne(u) ==
    IF carts[u] = <<>> THEN NoCart
    ELSE [found |-> TRUE, idx |-> 1, cartItems |-> carts[u][1].cartItems]

\* getProductById(productId): the product, or null
ProductExists(id) == id \in Catalog

\* cartItems.findIndex(item => item.product._id equals id): 0 stands for -1
RECURSIVE FindIndexFrom(_, _, _)
FindIndexFrom(items, id, i) ==
    IF i > Len(items) THEN 0
    ELSE IF items[i].product.id = id THEN i
    ELSE FindIndexFrom(items, id, i + 1)
FindIndex(items, id) == FindIndexFrom(items, id, 1)

\* cartItems.splice(i, 1)
Splice(items, i) == [k \in 1..(Len(items) - 1) |-> IF k < i THEN items[k] ELSE items[k + 1]]

\* cartItems.reduce((sum, {product, quantity}) => sum + product.cost * quantity, 0)
RECURSIVE Reduce(_)
Reduce(items) ==
    IF items = <<>> THEN 0
    ELSE Reduce(SubSeq(items, 1, Len(items) - 1))
         + items[Len(items)].product.cost * items[Len(items)].quantity

\* variant of SaveCart: a document saved without items is removed
SaveCartDropEmpty(u, doc) ==
    IF doc.cartItems = <<>>
    THEN [carts EXCEPT ![u] = SubSeq(@, 1, doc.idx - 1) \o SubSeq(@, doc.idx + 1, Len(@))]
    ELSE [carts EXCEPT ![u][doc.idx].cartItems = doc.cartItems]

\* cart.save(): the document held in memory replaces the persisted document
SaveCart(u, doc) == [carts EXCEPT ![u][doc.idx].cartItems = doc.cartItems]

\* cart.cartItems.push(item); cart.save(): the persistence layer either
\* replaces the persisted items by the items held in memory (last write
\* wins), or appends the pushed item to the persisted items
SavePushed(u, doc, item) ==
    {SaveCart(u, doc), [carts EXCEPT ![u][doc.idx].cartItems = Append(@, item)]}

Running(p) == pc[p] \notin {"idle", "done"}

Finish(p, r) ==
    /\ pc' = [pc EXCEPT ![p] = "done"]
    /\ result' = [result EXCEPT ![p] = r]

\* ------------------------------------------------------------------- Init
Init ==
    /\ carts = [u \in Users |-> <<>>]
    /\ wallet = [u \in Users |-> InitWallet(u)]
    /\ inflight = {}
    /\ pc = [p \in Procs |-> "idle"]
    /\ op = [p \in Procs |-> "none"]
    /\ usr = [p \in Procs |-> 1]
    /\ productId = [p \in Procs |-> 1]
    /\ quantity = [p \in Procs |-> 1]
    /\ cart = [p \in Procs |-> NoCart]
    /\ walletMoney = [p \in Procs |-> 0]
    /\ nonDefaultAddress = [p \in Procs |-> TRUE]
    /\ totalCartValue = [p \in Procs |-> 0]
    /\ checks = [p \in Procs |-> <<>>]
    /\ result = [p \in Procs |-> None]
    /\ ncalls = 0
    /\ clock = [sec |-> Epoch0, ms |-> 0]
    /\ tok = NoToken
    /\ auth = NoAuth

\* ------------------------------------------------------------------ calls
\* A request enters a handler: the arguments are bound; `user` is the user
\* document of the request, holding the persisted walletMoney.
EnterWith(p, ops, quantities, limit) ==
    /\ pc[p] \in {"idle", "done"}
    /\ ncalls < limit
    /\ \E o \in ops, u \in Users,
          id \in ProductIds, q \in quantities, a \in BOOLEAN :
        /\ o \in {"get", "checkout"} => id = 1 /\ q = 1
        /\ o = "delete" => q = 1
        /\ o # "checkout" => a
        /\ nonDefaultAddress' = [nonDefaultAddress EXCEPT ![p] = a]
        /\ op' = [op EXCEPT ![p] = o]
        /\ usr' = [usr EXCEPT ![p] = u]
        /\ productId' = [productId EXCEPT ![p] = id]
        /\ quantity' = [quantity EXCEPT ![p] = q]
        /\ walletMoney' = [walletMoney EXCEPT ![p] = wallet[u]]
    /\ pc' = [pc EXCEPT ![p] = "findOne"]
    /\ cart' = [cart EXCEPT ![p] = NoCart]
    /\ totalCartValue' = [totalCartValue EXCEPT ![p] = 0]
    /\ checks' = [checks EXCEPT ![p] = <<>>]
    /\ result' = [result EXCEPT ![p] = None]
    /\ ncalls' = ncalls + 1
    /\ UNCHANGED <<carts, wallet, inflight, tokenVars>>

Enter(p, ops, limit) == EnterWith(p, ops, Quantities, limit)

Operations == {"get", "add", "update", "delete", "checkout"}

Call(p) == Enter(p, Operations, MaxCalls)

\* getCartByUser
GetCartByUser(p) ==
    /\ pc[p] = "findOne" /\ op[p] = "get"
    /\ cart' = [cart EXCEPT ![p] = FindOne(usr[p])]
    /\ IF ~FindOne(usr[p]).found THEN Finish(p, ErrNoCartGet) ELSE Finish(p, OK)
    /\ UNCHANGED <<carts, wallet, inflight, args,
                   totalCartValue, checks, ncalls, tokenVars>>

\* ------------------------------------------------------- addProductToCart
\* let cart = await Cart.findOne({ email: user.email })
AddFindOne(p) ==
    /\ pc[p] = "findOne" /\ op[p] = "add"
    /\ cart' = [cart EXCEPT ![p] = FindOne(usr[p])]
    /\ pc' = [pc EXCEPT ![p] = "addWrite"]
    /\ UNCHANGED <<carts, wallet, inflight, args,
                   totalCartValue, checks, result, ncalls, tokenVars>>

\* variant of CartCreate: the user key is not unique
CartCreateNotUnique(u, items, accepted) ==
    IF accepted
    THEN [carts EXCEPT ![u] = Append(@, [email |-> u, cartItems |-> items])]
    ELSE carts

\* Cart.create({email, cartItems}): the created document, or no document
\* when the collection already holds a cart with that email (the user key is
\* unique) or the write fails.
CartCreate(u, items, accepted) ==
    IF accepted /\ carts[u] = <<>>
    THEN [carts EXCEPT ![u] = Append(@, [email |-> u, cartItems |-> items])]
    ELSE carts

\* variant of AddProduct: the "already in cart" check is missing
AddProductNoDuplicateCheck(p, accepted) ==
    LET u == usr[p]
        item == Item(productId[p], quantity[p])
    IN
    IF ~ProductExists(productId[p]) THEN
        /\ Finish(p, ErrProductMissing)
        /\ UNCHANGED <<carts, cart>>
    ELSE IF ~cart[p].found THEN
        /\ carts' = CartCreate(u, <<item>>, accepted)
        /\ IF carts' = carts
           THEN Finish(p, ErrCreateFailed) /\ UNCHANGED cart
           ELSE /\ Finish(p, OK)
                /\ cart' = [cart EXCEPT ![p] = [found |-> TRUE, idx |-> Len(carts'[u]),
                                                cartItems |-> <<item>>]]
    ELSE
        /\ cart' = [cart EXCEPT ![p].cartItems = Append(@, item)]
        /\ IF accepted
           THEN carts' = SaveCart(u, cart'[p]) /\ Finish(p, OK)
           ELSE UNCHANGED carts /\ Finish(p, PersistenceError)

\* variant of AddProduct: a product already in the cart has its quantity raised
AddProductMerge(p, accepted) ==
    LET u == usr[p]
        item == Item(productId[p], quantity[p])
        i == FindIndex(cart[p].cartItems, productId[p])
    IN
    IF ~ProductExists(productId[p]) THEN
        /\ Finish(p, ErrProductMissing)
        /\ UNCHANGED <<carts, cart>>
    ELSE IF ~cart[p].found THEN
        /\ carts' = CartCreate(u, <<item>>, accepted)
        /\ IF carts' = carts
           THEN Finish(p, ErrCreateFailed) /\ UNCHANGED cart
           ELSE /\ Finish(p, OK)
                /\ cart' = [cart EXCEPT ![p] = [found |-> TRUE, idx |-> Len(carts'[u]),
                                                cartItems |-> <<item>>]]
    ELSE
        /\ cart' = IF i > 0
                   THEN [cart EXCEPT ![p].cartItems[i].quantity = @ + quantity[p]]
                   ELSE [cart EXCEPT ![p].cartItems = Append(@, item)]
        /\ IF accepted
           THEN carts' = SaveCart(u, cart'[p]) /\ Finish(p, OK)
           ELSE UNCHANGED carts /\ Finish(p, PersistenceError)

\* variant of AddProduct: the cart is created before the product is looked up
AddProductCreateFirst(p, accepted) ==
    LET u == usr[p]
        item == Item(productId[p], quantity[p])
    IN
    IF ~cart[p].found THEN
        /\ carts' = CartCreate(u, IF ProductExists(productId[p]) THEN <<item>> ELSE <<>>, accepted)
        /\ IF ~ProductExists(productId[p])
           THEN Finish(p, ErrProductMissing) /\ UNCHANGED cart
           ELSE IF carts' = carts
           THEN Finish(p, ErrCreateFailed) /\ UNCHANGED cart
           ELSE /\ Finish(p, OK)
                /\ cart' = [cart EXCEPT ![p] = [found |-> TRUE, idx |-> Len(carts'[u]),
                                                cartItems |-> <<item>>]]
    ELSE IF ~ProductExists(productId[p]) THEN
        /\ Finish(p, ErrProductMissing)
        /\ UNCHANGED <<carts, cart>>
    ELSE IF FindIndex(cart[p].cartItems, productId[p]) > 0 THEN
        /\ Finish(p, ErrDuplicate)
        /\ UNCHANGED <<carts, cart>>
    ELSE
        /\ cart' = [cart EXCEPT ![p].cartItems = Append(@, item)]
        /\ IF accepted
           THEN carts' = SaveCart(u, cart'[p]) /\ Finish(p, OK)
           ELSE UNCHANGED carts /\ Finish(p, PersistenceError)

\* variant of AddProduct: the item is added only if the persisted cart holds
\* no item with that product (an atomic conditional update)
AddProductAtomic(p, accepted) ==
    LET u == usr[p]
        item == Item(productId[p], quantity[p])
    IN
    IF ~ProductExists(productId[p]) THEN
        /\ Finish(p, ErrProductMissing)
        /\ UNCHANGED <<carts, cart>>
    ELSE IF ~cart[p].found THEN
        /\ carts' = CartCreate(u, <<item>>, accepted)
        /\ IF carts' = carts
           THEN Finish(p, ErrCreateFailed) /\ UNCHANGED cart
           ELSE /\ Finish(p, OK)
                /\ cart' = [cart EXCEPT ![p] = [found |-> TRUE, idx |-> Len(carts'[u]),
                                                cartItems |-> <<item>>]]
    ELSE IF FindIndex(carts[u][cart[p].idx].cartItems, productId[p]) > 0 THEN
        /\ Finish(p, ErrDuplicate)
        /\ UNCHANGED <<carts, cart>>
    ELSE
        /\ cart' = [cart EXCEPT ![p].cartItems = Append(@, item)]
        /\ IF accepted
           THEN carts' \in SavePushed(u, cart'[p], item) /\ Finish(p, OK)
           ELSE UNCHANGED carts /\ Finish(p, PersistenceError)

\* the rest of addProductToCart, from the product lookup on
AddProduct(p, accepted) ==
    LET u == usr[p]
        item == Item(productId[p], quantity[p])
    IN
    IF ~ProductExists(productId[p]) THEN
        /\ Finish(p, ErrProductMissing)
        /\ UNCHANGED <<carts, cart>>
    ELSE IF ~cart[p].found THEN
        /\ carts' = CartCreate(u, <<item>>, accepted)
        /\ IF carts' = carts
           THEN Finish(p, ErrCreateFailed) /\ UNCHANGED cart
           ELSE /\ Finish(p, OK)
                /\ cart' = [cart EXCEPT ![p] = [found |-> TRUE, idx |-> Len(carts'[u]),
                                                cartItems |-> <<item>>]]
    ELSE IF FindIndex(cart[p].cartItems, productId[p]) > 0 THEN
        /\ Finish(p, ErrDuplicate)
        /\ UNCHANGED <<carts, cart>>
    ELSE
        /\ cart' = [cart EXCEPT ![p].cartItems = Append(@, item)]
        /\ IF accepted
           THEN carts' \in SavePushed(u, cart'[p], item) /\ Finish(p, OK)
           ELSE UNCHANGED carts /\ Finish(p, PersistenceError)

AddWrite(p) ==
    /\ pc[p] = "addWrite"
    /\ \E accepted \in BOOLEAN : AddProduct(p, accepted)
    /\ UNCHANGED <<wallet, inflight, args,
                   totalCartValue, checks, ncalls, tokenVars>>

\* ---------------------------------------------------- updateProductInCart
\* let cart = await Cart.findOne(...); no cart: 400
UpdateFindOne(p) ==
    /\ pc[p] = "findOne" /\ op[p] = "update"
    /\ cart' = [cart EXCEPT ![p] = FindOne(usr[p])]
    /\ IF ~FindOne(usr[p]).found
       THEN Finish(p, ErrNoCartUpdate)
       ELSE pc' = [pc EXCEPT ![p] = "updateWrite"] /\ UNCHANGED result
    /\ UNCHANGED <<carts, wallet, inflight, args, totalCartValue, checks, ncalls, tokenVars>>

\* variant of UpdateProduct: a product that is not in the cart is appended
UpdateProductUpsert(p, accepted) ==
    LET productIndex == FindIndex(cart[p].cartItems, productId[p]) IN
    IF ~ProductExists(productId[p]) THEN
        /\ Finish(p, ErrProductMissing)
        /\ UNCHANGED <<carts, cart>>
    ELSE
        /\ cart' = IF productIndex = 0
                   THEN [cart EXCEPT ![p].cartItems = Append(@, Item(productId[p], quantity[p]))]
                   ELSE [cart EXCEPT ![p].cartItems[productIndex].quantity = quantity[p]]
        /\ IF accepted
           THEN carts' = SaveCart(usr[p], cart'[p]) /\ Finish(p, OK)
           ELSE UNCHANGED carts /\ Finish(p, PersistenceError)

\* the rest of updateProductInCart, from the product lookup on
UpdateProduct(p, accepted) ==
    LET productIndex == FindIndex(cart[p].cartItems, productId[p]) IN
    IF ~ProductExists(productId[p]) THEN
        /\ Finish(p, ErrProductMissing)
        /\ UNCHANGED <<carts, cart>>
    ELSE IF productIndex = 0 THEN
        /\ Finish(p, ErrNotInCart)
        /\ UNCHANGED <<carts, cart>>
    ELSE
        /\ cart' = [cart EXCEPT ![p].cartItems[productIndex].quantity = quantity[p]]
        /\ IF accepted
           THEN carts' = SaveCart(usr[p], cart'[p]) /\ Finish(p, OK)
           ELSE UNCHANGED carts /\ Finish(p, PersistenceError)

UpdateWrite(p) ==
    /\ pc[p] = "updateWrite"
    /\ \E accepted \in BOOLEAN : UpdateProduct(p, accepted)
    /\ UNCHANGED <<wallet, inflight, args, totalCartValue, checks, ncalls, tokenVars>>

\* -------------------------------------------------- deleteProductFromCart
\* findOne, the two checks and the splice of the document held in memory
DeleteProduct(p) ==
    LET found == FindOne(usr[p])
        productIndex == FindIndex(found.cartItems, productId[p])
    IN
    IF ~found.found THEN
        /\ cart' = [cart EXCEPT ![p] = found]
        /\ Finish(p, ErrNoCartDelete)
    ELSE IF productIndex = 0 THEN
        /\ cart' = [cart EXCEPT ![p] = found]
        /\ Finish(p, ErrNotInCart)
    ELSE
        /\ cart' = [cart EXCEPT ![p] = [found EXCEPT !.cartItems = Splice(@, productIndex)]]
        /\ pc' = [pc EXCEPT ![p] = "deleteWrite"]
        /\ UNCHANGED result

DeleteFindOne(p) ==
    /\ pc[p] = "findOne" /\ op[p] = "delete"
    /\ DeleteProduct(p)
    /\ UNCHANGED <<carts, wallet, inflight, args, totalCartValue, checks, ncalls, tokenVars>>

\* await cart.save(); return cart
DeleteSave(p, accepted) ==
    IF accepted
    THEN carts' = SaveCart(usr[p], cart[p]) /\ Finish(p, OK)
    ELSE UNCHANGED carts /\ Finish(p, PersistenceError)

DeleteWrite(p) ==
    /\ pc[p] = "deleteWrite"
    /\ \E accepted \in BOOLEAN : DeleteSave(p, accepted)
    /\ UNCHANGED <<wallet, inflight, args, cart, totalCartValue, checks, ncalls, tokenVars>>

\* --------------------------------------------------------------- checkout
\* findOne and the two checks of the cart that was read
CheckoutCart(p) ==
    LET found == FindOne(usr[p]) IN
    /\ cart' = [cart EXCEPT ![p] = found]
    /\ IF ~found.found THEN
           /\ checks' = [checks EXCEPT ![p] = <<"exists">>]
           /\ Finish(p, ErrCartNotFound)
       ELSE IF Len(found.cartItems) = 0 THEN
           /\ checks' = [checks EXCEPT ![p] = <<"exists", "nonEmpty">>]
           /\ Finish(p, ErrCartEmpty)
       ELSE
           /\ checks' = [checks EXCEPT ![p] = <<"exists", "nonEmpty">>]
           /\ pc' = [pc EXCEPT ![p] = "checkoutPay"]
           /\ UNCHANGED result

CheckoutFindOne(p) ==
    /\ pc[p] = "findOne" /\ op[p] = "checkout"
    /\ CheckoutCart(p)
    /\ UNCHANGED <<carts, wallet, inflight, args, totalCartValue, ncalls, tokenVars>>

\* variant of CheckoutPay: the balance is checked before the address
CheckoutPayBalanceFirst(p) ==
    LET total == Reduce(cart[p].cartItems) IN
    IF total > walletMoney[p] THEN
        /\ checks' = [checks EXCEPT ![p] = Append(@, "balance")]
        /\ totalCartValue' = [totalCartValue EXCEPT ![p] = total]
        /\ Finish(p, ErrBalance)
        /\ UNCHANGED <<inflight, cart, walletMoney>>
    ELSE IF ~nonDefaultAddress[p] THEN
        /\ checks' = [checks EXCEPT ![p] = @ \o <<"balance", "address">>]
        /\ totalCartValue' = [totalCartValue EXCEPT ![p] = total]
        /\ Finish(p, ErrAddress)
        /\ UNCHANGED <<inflight, cart, walletMoney>>
    ELSE
        /\ checks' = [checks EXCEPT ![p] = @ \o <<"address", "balance">>]
        /\ totalCartValue' = [totalCartValue EXCEPT ![p] = total]
        /\ walletMoney' = [walletMoney EXCEPT ![p] = @ - total]
        /\ cart' = [cart EXCEPT ![p].cartItems = <<>>]
        /\ inflight' = inflight \cup
              {[kind |-> "user", user |-> usr[p], by |-> p, walletMoney |-> walletMoney'[p]],
               [kind |-> "cart", user |-> usr[p], by |-> p, doc |-> cart'[p]]}
        /\ Finish(p, OK)

\* variant of CheckoutPay: the cart is cleared before the balance is checked
CheckoutPayClearFirst(p) ==
    LET total == Reduce(cart[p].cartItems) IN
    IF ~nonDefaultAddress[p] THEN
        /\ checks' = [checks EXCEPT ![p] = Append(@, "address")]
        /\ Finish(p, ErrAddress)
        /\ UNCHANGED <<inflight, cart, walletMoney, totalCartValue>>
    ELSE
        /\ checks' = [checks EXCEPT ![p] = @ \o <<"address", "balance">>]
        /\ totalCartValue' = [totalCartValue EXCEPT ![p] = total]
        /\ IF total > walletMoney[p] THEN
               /\ Finish(p, ErrBalance)
               /\ inflight' = inflight \cup
                     {[kind |-> "cart", user |-> usr[p], by |-> p,
                       doc |-> [cart[p] EXCEPT !.cartItems = <<>>]]}
               /\ UNCHANGED <<cart, walletMoney>>
           ELSE
               /\ walletMoney' = [walletMoney EXCEPT ![p] = @ - total]
               /\ cart' = [cart EXCEPT ![p].cartItems = <<>>]
               /\ inflight' = inflight \cup
                     {[kind |-> "user", user |-> usr[p], by |-> p, walletMoney |-> walletMoney'[p]],
                      [kind |-> "cart", user |-> usr[p], by |-> p, doc |-> cart'[p]]}
               /\ Finish(p, OK)

\* The rest of checkout, from the resolution of hasSetNonDefaultAddress()
\* on.  user.save() and cart.save() are called and not awaited: the two
\* writes are issued, and checkout returns.
CheckoutPay(p) ==
    LET total == Reduce(cart[p].cartItems) IN
    IF ~nonDefaultAddress[p] THEN
        /\ checks' = [checks EXCEPT ![p] = Append(@, "address")]
        /\ Finish(p, ErrAddress)
        /\ UNCHANGED <<inflight, cart, walletMoney, totalCartValue>>
    ELSE
        /\ checks' = [checks EXCEPT ![p] = @ \o <<"address", "balance">>]
        /\ totalCartValue' = [totalCartValue EXCEPT ![p] = total]
        /\ IF total > walletMoney[p] THEN
               /\ Finish(p, ErrBalance)
               /\ UNCHANGED <<inflight, cart, walletMoney>>
           ELSE
               /\ walletMoney' = [walletMoney EXCEPT ![p] = @ - total]
               /\ cart' = [cart EXCEPT ![p].cartItems = <<>>]
               /\ inflight' = inflight \cup
                     {[kind |-> "user", user |-> usr[p], by |-> p, walletMoney |-> walletMoney'[p]],
                      [kind |-> "cart", user |-> usr[p], by |-> p, doc |-> cart'[p]]}
               /\ Finish(p, OK)

CheckoutWrite(p) ==
    /\ pc[p] = "checkoutPay"
    /\ CheckoutPay(p)
    /\ UNCHANGED <<carts, wallet, op, usr, productId, quantity, nonDefaultAddress, ncalls, tokenVars>>

\* variant of ApplyWrite: the user write is not confined to the user's document
ApplyWriteEveryWallet(w) ==
    IF w.kind = "user"
    THEN wallet' = [u \in Users |-> w.walletMoney] /\ UNCHANGED carts
    ELSE carts' = SaveCart(w.user, w.doc) /\ UNCHANGED wallet

\* A write issued by checkout reaches the database and is applied
ApplyWrite(w) ==
    IF w.kind = "user"
    THEN wallet' = [wallet EXCEPT ![w.user] = w.walletMoney] /\ UNCHANGED carts
    ELSE carts' = SaveCart(w.user, w.doc) /\ UNCHANGED wallet

WriteLands ==
    \E w \in inflight :
        /\ ApplyWrite(w)
        /\ inflight' = inflight \ {w}
        /\ UNCHANGED <<pc, args, cart, totalCartValue, checks, result, ncalls, tokenVars>>

\* A write issued by checkout is rejected; nothing awaits the rejection
WriteFails ==
    \E w \in inflight :
        /\ inflight' = inflight \ {w}
        /\ UNCHANGED <<carts, wallet, pc, args, cart, totalCartValue, checks, result, ncalls, tokenVars>>

\* ------------------------------------------------------------------- Next
Step(p) ==
    \/ GetCartByUser(p)
    \/ AddFindOne(p)
    \/ AddWrite(p)
    \/ UpdateFindOne(p)
    \/ UpdateWrite(p)
    \/ DeleteFindOne(p)
    \/ DeleteWrite(p)
    \/ CheckoutFindOne(p)
    \/ CheckoutWrite(p)

\* requests are served concurrently
Next ==
    \/ \E p \in Procs : Call(p)
    \/ \E p \in Procs : Step(p)
    \/ WriteLands
    \/ WriteFails

Spec == Init /\ [][Next]_vars

\* requests are made one after the other: a call starts when no request is
\* being served and no write is pending
Quiescent == inflight = {} /\ \A p \in Procs : ~Running(p)

SeqCall == Quiescent /\ Call(1)

SeqNext ==
    \/ SeqCall
    \/ Step(1)
    \/ WriteLands
    \/ WriteFails

SeqSpec == Init /\ [][SeqNext]_vars

\* concurrent requests, all of them addProductToCart
AddCall(p) == Enter(p, {"add"}, MaxConcurrentCalls)

AddNext ==
    \E p \in Procs :
        \/ AddCall(p)
        \/ AddFindOne(p)
        \/ AddWrite(p)

AddSpec == Init /\ [][AddNext]_vars

\* every user has a cart holding product 1, as left by an addProductToCart of
\* each user; no request is being served
StockedCarts == [u \in Users |-> <<[email |-> u, cartItems |-> <<Item(1, 1)>>]>>]

StockedInit ==
    /\ carts = StockedCarts
    /\ wallet = [u \in Users |-> InitWallet(u)]
    /\ inflight = {}
    /\ pc = [p \in Procs |-> "idle"]
    /\ op = [p \in Procs |-> "none"]
    /\ usr = [p \in Procs |-> 1]
    /\ productId = [p \in Procs |-> 1]
    /\ quantity = [p \in Procs |-> 1]
    /\ cart = [p \in Procs |-> NoCart]
    /\ walletMoney = [p \in Procs |-> 0]
    /\ nonDefaultAddress = [p \in Procs |-> TRUE]
    /\ totalCartValue = [p \in Procs |-> 0]
    /\ checks = [p \in Procs |-> <<>>]
    /\ result = [p \in Procs |-> None]
    /\ ncalls = 0
    /\ clock = [sec |-> Epoch0, ms |-> 0]
    /\ tok = NoToken
    /\ auth = NoAuth

\* concurrent addProductToCart requests on carts that exist
RaceSpec == StockedInit /\ [][AddNext]_vars

\* concurrent requests that write: checkout with addProductToCart,
\* updateProductInCart and deleteProductFromCart, on carts that exist
ConcCall(p) == Enter(p, Operations \ {"get"}, MaxConcurrentCalls)

ConcNext ==
    \/ \E p \in Procs :
          \/ ConcCall(p)
          \/ AddFindOne(p)
          \/ AddWrite(p)
          \/ UpdateFindOne(p)
          \/ UpdateWrite(p)
          \/ DeleteFindOne(p)
          \/ DeleteWrite(p)
          \/ CheckoutFindOne(p)
          \/ CheckoutWrite(p)
    \/ WriteLands
    \/ WriteFails

ConcSpec == StockedInit /\ [][ConcNext]_vars

\* requests made one after the other, with any integer for a quantity: the
\* handlers take the quantity argument as it comes
AnyQuantities == (0 - 1)..MaxQty

AnyQuantityCall == Quiescent /\ EnterWith(1, Operations, AnyQuantities, MaxCalls)

AnyQuantityNext ==
    \/ AnyQuantityCall
    \/ Step(1)
    \/ WriteLands
    \/ WriteFails

AnyQuantitySpec == Init /\ [][AnyQuantityNext]_vars

\* ------------------------------------------------------------ generateToken
\* variant of ExpiresIn: the threshold itself is taken for a timestamp
ExpiresInThresholdIncluded(expires, now) ==
    IF expires >= Threshold
    THEN FromSeconds(expires - now)
    ELSE FromMinutes(expires)

\* variant of ExpiresIn: the duration to a timestamp is taken backwards
ExpiresInBackwards(expires, now) ==
    IF expires > Threshold
    THEN FromSeconds(now - expires)
    ELSE FromMinutes(expires)

\* the expiresIn of generateToken: a timestamp in seconds above the
\* threshold, minutes otherwise
ExpiresIn(expires, now) ==
    IF expires > Threshold
    THEN FromSeconds(expires - now)
    ELSE FromMinutes(expires)

\* jwt.sign({sub, type}, secret, {expiresIn}): iat is the clock in seconds
\* at signing, exp is iat + expiresIn
JwtSign(sub, type, expiresIn, c) ==
    [sub |-> sub, type |-> type, iat |-> UnixSeconds(c),
     exp |-> Plus(FromSeconds(UnixSeconds(c)), expiresIn)]

\* generateToken(userId, expires, type) with the clock at c when it starts
\* and at c2 when jwt.sign reads it
GenerateToken(userId, expires, type, c, c2) ==
    [called |-> TRUE, userId |-> userId, expires |-> expires, type |-> type,
     now |-> UnixSeconds(c),
     expiresIn |-> ExpiresIn(expires, UnixSeconds(c)),
     payload |-> JwtSign(userId, type, ExpiresIn(expires, UnixSeconds(c)), c2)]

\* the expires arguments tried: minutes (among them none and a negative
\* number), the threshold and its successor, timestamps around the clock
ExpirySpecs(c) ==
    {0 - 1, 0, 1, 240, Threshold, Threshold + 1,
     c.sec - 1, c.sec, c.sec + 1, c.sec + 3600}

Ticks(c) == ((c.sec - Epoch0) * 1000 + c.ms) \div 500

CallGenerateToken ==
    /\ \E userId \in Users, expires \in ExpirySpecs(clock), type \in TokenTypes,
          e \in 0..MaxElapsed :
        /\ Ticks(clock) + e <= MaxTicks
        /\ tok' = GenerateToken(userId, expires, type, clock, After(clock, e))
        /\ clock' = After(clock, e)
    /\ UNCHANGED <<auth, cartVars>>

\* ------------------------------------------------------- generateAuthTokens
\* variant of AuthTokens: the envelope adds the lifetime as seconds
AuthTokensSeconds(user, minutes, c, c2) ==
    [called |-> TRUE, user |-> user, minutes |-> minutes, at |-> FromClock(c),
     expires |-> Plus(FromClock(c), FromSeconds(minutes)),
     token |-> GenerateToken(user, minutes, "access", c2, c2).payload]

\* generateAuthTokens(user) with config.jwt.accessExpirationMinutes =
\* minutes, the clock at c when expires is computed and at c2 when
\* generateToken runs
AuthTokens(user, minutes, c, c2) ==
    [called |-> TRUE, user |-> user, minutes |-> minutes, at |-> FromClock(c),
     expires |-> Plus(FromClock(c), FromMinutes(minutes)),
     token |-> GenerateToken(user, minutes, "access", c2, c2).payload]

\* the configured access token lifetimes tried
AccessExpirationMinutes == {1, 240, Threshold, Threshold + 1}

CallGenerateAuthTokens ==
    /\ \E user \in Users, minutes \in AccessExpirationMinutes, e \in 0..MaxElapsed :
        /\ Ticks(clock) + e <= MaxTicks
        /\ auth' = AuthTokens(user, minutes, clock, After(clock, e))
        /\ tok' = GenerateToken(user, minutes, "access", After(clock, e), After(clock, e))
        /\ clock' = After(clock, e)
    /\ UNCHANGED cartVars

\* time passes between two calls
Tick ==
    /\ Ticks(clock) < MaxTicks
    /\ clock' = After(clock, 1)
    /\ UNCHANGED <<tok, auth, cartVars>>

TokenNext ==
    \/ CallGenerateToken
    \/ CallGenerateAuthTokens
    \/ Tick

TokenSpec == Init /\ [][TokenNext]_vars

\* ================================================================ claims
Done(p, o) == pc[p] = "done" /\ op[p] = o

\* the persisted cart document a request holds in memory
Persisted(p) == carts[usr[p]][cart[p].idx]

\* number of items of a cart that hold product id
Count(items, id) == Cardinality({i \in 1..Len(items) : items[i].product.id = id})

\* C1: once a checkout has completed successfully and its writes have
\* settled, the persisted cart of the user is empty and the persisted
\* wallet balance is the balance before the checkout minus the cart total.
\* (walletMoney was debited in memory: the balance before is walletMoney +
\* totalCartValue.)
C1_CheckoutClearsAndDebits ==
    \A p \in Procs :
        (Done(p, "checkout") /\ result[p] = OK /\ inflight = {}) =>
            /\ Persisted(p).cartItems = <<>>
            /\ wallet[usr[p]] = (walletMoney[p] + totalCartValue[p]) - totalCartValue[p]

\* C2: no state is reachable in which the cart of a successful checkout has
\* been cleared while its wallet debit is not persisted.
C2_NoClearWithoutDebit ==
    \A p \in Procs :
        (Done(p, "checkout") /\ result[p] = OK) =>
            ~(Persisted(p).cartItems = <<>> /\ wallet[usr[p]] # walletMoney[p])

\* C3: every step of a checkout that does not end it successfully leaves the
\* persisted carts and wallets as they are and issues no write: a checkout
\* that fails has mutated nothing.
C3_FailedCheckoutMutatesNothing ==
    [][\A p \in Procs :
          (op'[p] = "checkout" /\ pc'[p] # pc[p] /\ ~(pc'[p] = "done" /\ result'[p] = OK))
              => UNCHANGED <<carts, wallet, inflight>>]_vars

C3_Witness ==
    \E p \in Procs :
        /\ Done(p, "checkout") /\ result[p] = ErrBalance
        /\ Persisted(p).cartItems # <<>>
        /\ wallet[usr[p]] = walletMoney[p]

\* C4: checkout evaluates cart exists, cart non-empty, address set, total <=
\* balance in this order and stops at the first that fails: the error is that
\* of the first failing precondition and no later check was evaluated.
CheckOrder == <<"exists", "nonEmpty", "address", "balance">>
CheckError == <<ErrCartNotFound, ErrCartEmpty, ErrAddress, ErrBalance>>

\* the first precondition the inputs of a failed checkout violate (0: none)
FirstFailing(p) ==
    IF ~cart[p].found THEN 1
    ELSE IF cart[p].cartItems = <<>> THEN 2
    ELSE IF ~nonDefaultAddress[p] THEN 3
    ELSE IF Reduce(cart[p].cartItems) > walletMoney[p] THEN 4
    ELSE 0

C4_FirstFailingPrecondition ==
    \A p \in Procs :
        Done(p, "checkout") =>
            IF result[p] = OK
            THEN checks[p] = CheckOrder /\ nonDefaultAddress[p] /\ walletMoney[p] >= 0
            ELSE /\ FirstFailing(p) > 0
                 /\ result[p] = CheckError[FirstFailing(p)]
                 /\ checks[p] = SubSeq(CheckOrder, 1, FirstFailing(p))

\* two preconditions are violated (no address, total above the balance) and
\* the first one is reported
C4_Witness ==
    \E p \in Procs :
        /\ Done(p, "checkout") /\ result[p] = ErrAddress
        /\ Reduce(cart[p].cartItems) > walletMoney[p]

\* C5: when calls are made one after the other, every cart holds at most one
\* item per product.
C5_OneItemPerProduct ==
    \A u \in Users : \A d \in 1..Len(carts[u]) : \A id \in ProductIds :
        Count(carts[u][d].cartItems, id) <= 1

C5_Witness ==
    \E p \in Procs :
        /\ Done(p, "add") /\ result[p] = ErrDuplicate
        /\ Len(Persisted(p).cartItems) = 2

\* C6: an addProductToCart of a catalog product that the user's cart already
\* holds fails with the duplicate error and leaves the carts unchanged; one
\* that succeeds leaves exactly one item with that product, with the quantity
\* supplied.  (Hence, of two calls in succession, the second fails and the
\* quantity stays that of the first.)
C6_AddTwice ==
    [][\A p \in Procs :
          (op[p] = "add" /\ pc[p] = "addWrite" /\ pc'[p] = "done"
              /\ ProductExists(productId[p])) =>
            LET u == usr[p] IN
            IF carts[u] # <<>> /\ FindIndex(carts[u][1].cartItems, productId[p]) > 0
            THEN result'[p] = ErrDuplicate /\ carts' = carts
            ELSE result'[p] = OK =>
                    /\ Count(carts'[u][1].cartItems, productId[p]) = 1
                    /\ \E i \in 1..Len(carts'[u][1].cartItems) :
                          carts'[u][1].cartItems[i] = Item(productId[p], quantity[p])]_vars

\* the second call, with another quantity, has failed; the quantity is that
\* of the first call
C6_Witness ==
    \E p \in Procs :
        /\ Done(p, "add") /\ result[p] = ErrDuplicate
        /\ Count(Persisted(p).cartItems, productId[p]) = 1
        /\ \E i \in 1..Len(Persisted(p).cartItems) :
              /\ Persisted(p).cartItems[i].product.id = productId[p]
              /\ Persisted(p).cartItems[i].quantity # quantity[p]

\* C7: an addProductToCart with a product id the catalog does not resolve
\* ends with the catalog-missing error, and none of its steps creates or
\* changes a cart, whatever the cart of the user is.
C7_AddMissingProduct ==
    [][\A p \in Procs :
          (op'[p] = "add" /\ ~ProductExists(productId'[p]) /\ pc'[p] # pc[p]) =>
              /\ UNCHANGED <<carts, wallet, inflight>>
              /\ pc'[p] = "done" => result'[p] = ErrProductMissing]_vars

C7_Witness ==
    \E p \in Procs :
        /\ Done(p, "add") /\ ~ProductExists(productId[p])
        /\ result[p] = ErrProductMissing
        /\ cart[p].found /\ cart[p].cartItems # <<>>
        /\ Persisted(p).cartItems = cart[p].cartItems

\* C8: an updateProductInCart for a catalog product that is not among the
\* items of the user's cart fails with "Product not in cart" and leaves the
\* carts unchanged.
C8_UpdateAbsentProduct ==
    [][\A p \in Procs :
          (op[p] = "update" /\ pc[p] = "updateWrite" /\ pc'[p] = "done"
              /\ ProductExists(productId[p])
              /\ carts[usr[p]] # <<>>
              /\ FindIndex(carts[usr[p]][1].cartItems, productId[p]) = 0) =>
              /\ result'[p] = ErrNotInCart
              /\ carts' = carts]_vars

C8_Witness ==
    \E p \in Procs :
        /\ Done(p, "update") /\ ProductExists(productId[p])
        /\ result[p] = ErrNotInCart
        /\ Persisted(p).cartItems # <<>>

\* C9: no step removes a cart document; the delete of the last item and the
\* cart write of a checkout leave the document in place, without items.
C9_CartStaysPresent ==
    [][/\ \A u \in Users : Len(carts'[u]) >= Len(carts[u])
       /\ \A p \in Procs :
             (pc[p] = "deleteWrite" /\ pc'[p] = "done" /\ result'[p] = OK
                 /\ Len(carts[usr[p]][1].cartItems) = 1) =>
                 carts'[usr[p]][1].cartItems = <<>>
       /\ \A w \in inflight \ inflight' :
             (w.kind = "cart" /\ carts' # carts) => carts'[w.user][1].cartItems = <<>>]_vars

C9_Witness ==
    \E p \in Procs :
        /\ Done(p, "delete") /\ result[p] = OK
        /\ Len(carts[usr[p]]) = 1
        /\ carts[usr[p]][1].cartItems = <<>>

Lifetime(payload) == Minus(payload.exp, FromSeconds(payload.iat))
Zero == FromSeconds(0)
OneSecond == FromSeconds(1)
Within1s(a, b) == Leq(a, Plus(b, OneSecond)) /\ Leq(b, Plus(a, OneSecond))

C12_ExpiryAfterIssuance ==
    tok.called => Less(FromSeconds(tok.payload.iat), tok.payload.exp)

\* C12 as amended: the expiry instant is strictly later than the issuance
\* instant when expires is a positive number of minutes up to the threshold,
\* or a timestamp above the threshold that is later than the unix time
\* generateToken read.
C12_ExpiryAfterIssuanceAmended ==
    (tok.called /\ (\/ (0 < tok.expires /\ tok.expires <= Threshold)
                    \/ (tok.expires > Threshold /\ tok.expires > tok.now)))
        => Less(FromSeconds(tok.payload.iat), tok.payload.exp)

\* a timestamp one second ahead of the clock gives a token that lives one second
C12_Witness ==
    /\ tok.called /\ tok.expires = tok.now + 1
    /\ Lifetime(tok.payload) = OneSecond

\* C13 as claimed: for every configured lifetime, the envelope's expires is
\* the invocation time plus the lifetime, and the exp signed in the token is
\* the same instant within one second.
C13_EnvelopeMatchesToken ==
    auth.called =>
        /\ auth.expires = Plus(auth.at, FromMinutes(auth.minutes))
        /\ Within1s(auth.token.exp, auth.expires)

\* C13 as amended: the same, for every configured lifetime of at most
\* 1,000,000,000 minutes.
C13_EnvelopeMatchesTokenAmended ==
    (auth.called /\ auth.minutes <= Threshold) =>
        /\ auth.expires = Plus(auth.at, FromMinutes(auth.minutes))
        /\ Within1s(auth.token.exp, auth.expires)

\* the clock moved on between the envelope's clock read and the signing
C13_Witness ==
    /\ auth.called /\ auth.minutes = 240
    /\ auth.token.exp # auth.expires
    /\ Within1s(auth.token.exp, auth.expires)
    /\ FromSeconds(auth.token.iat) # auth.at

\* C14: after a successful checkout the wallet balance (the walletMoney
\* checkout computed and saves) is non-negative and not greater than the
\* balance before the checkout, whatever quantities were supplied.
C14_WalletNeverGrows ==
    \A p \in Procs :
        (Done(p, "checkout") /\ result[p] = OK) =>
            /\ walletMoney[p] >= 0
            /\ walletMoney[p] <= walletMoney[p] + totalCartValue[p]

\* C15: every item of every cart has a quantity >= 1, for any quantity
\* argument passed to addProductToCart or updateProductInCart.
C15_PositiveQuantity ==
    \A u \in Users : \A d \in 1..Len(carts[u]) :
        \A i \in 1..Len(carts[u][d].cartItems) :
            carts[u][d].cartItems[i].quantity >= 1

\* C16: checkout reports success only after both of its writes have
\* completed: no write of a checkout that has returned is still pending.
C16_SuccessAfterWrites ==
    \A p \in Procs :
        (Done(p, "checkout") /\ result[p] = OK) =>
            \A w \in inflight : w.by # p

\* C17: every ApiError a handler ends with is one that section 4 of the
\* specification gives for it (NotFoundError is 404, InvalidRequestError 400,
\* InternalError 500).
Section4Errors(o) ==
    CASE o = "get" -> {ApiError(NOT_FOUND, "User does not have a cart")}
      [] o = "add" -> {ApiError(BAD_REQUEST, "Product doesn't exist in database"),
                       ApiError(INTERNAL_SERVER_ERROR, "Failed to add product to cart"),
                       ErrDuplicate}
      [] o = "update" -> {ApiError(BAD_REQUEST, "User does not have a cart. Use POST to create cart and add a product"),
                          ApiError(BAD_REQUEST, "Product doesn't exist in database"),
                          ApiError(BAD_REQUEST, "Product not in cart")}
      [] o = "delete" -> {ApiError(BAD_REQUEST, "User does not have a cart"),
                          ApiError(BAD_REQUEST, "Product not in cart")}
      [] o = "checkout" -> {ApiError(NOT_FOUND, "Cart not found"),
                            ApiError(BAD_REQUEST, "Cart is Empty"),
                            ApiError(BAD_REQUEST, "Please set the default address"),
                            ApiError(BAD_REQUEST, "Insufficient balance")}

C17_ErrorsOfSection4 ==
    \A p \in Procs :
        (pc[p] = "done" /\ result[p] \notin {OK, PersistenceError}) =>
            result[p] \in Section4Errors(op[p])

\* C18: addProductToCart decides on the copy of the cart it read: a call for
\* a catalog product that its copy does not hold is never refused as a
\* duplicate, whatever the persisted cart holds by then, and when its save is
\* accepted the persisted cart holds the product.  (So two concurrent calls
\* for one user and one product, both having read the cart before either
\* writes, are both accepted.)
C18_BothAddsAccepted ==
    [][\A p \in Procs :
          (op[p] = "add" /\ pc[p] = "addWrite" /\ pc'[p] = "done"
              /\ ProductExists(productId[p]) /\ cart[p].found
              /\ FindIndex(cart[p].cartItems, productId[p]) = 0) =>
              /\ result'[p] \in {OK, PersistenceError}
              /\ result'[p] = OK =>
                    Count(carts'[usr[p]][cart[p].idx].cartItems, productId[p]) >= 1]_vars

\* both calls were accepted and the persisted cart holds two items for the
\* product, which neither call had read in the cart
C18_Witness ==
    \E p, q \in Procs :
        /\ p # q /\ usr[p] = usr[q] /\ productId[p] = productId[q]
        /\ Done(p, "add") /\ result[p] = OK
        /\ Done(q, "add") /\ result[q] = OK
        /\ Count(cart[p].cartItems, productId[p]) = 1
        /\ Count(cart[q].cartItems, productId[q]) = 1
        /\ Len(cart[p].cartItems) = 2 /\ Len(cart[q].cartItems) = 2
        /\ Count(carts[usr[p]][1].cartItems, productId[p]) = 2

\* C19: a step of an operation invoked for user U changes no wallet and no
\* cart of another user, and only checkout issues writes, all of them to U's
\* own documents; a call entering changes nothing persisted; a write of a
\* checkout that settles changes nothing of another user, its cart write no
\* wallet and its user write no cart.
C19_FrameOfOperations ==
    [][/\ \A p \in Procs :
             (Running(p) /\ pc'[p] # pc[p]) =>
                 /\ wallet' = wallet
                 /\ \A u \in Users \ {usr[p]} : carts'[u] = carts[u]
                 /\ op[p] # "checkout" => inflight' = inflight
                 /\ \A w \in inflight' \ inflight : w.user = usr[p] /\ w.by = p
       /\ \A p \in Procs :
             (~Running(p) /\ pc'[p] # pc[p]) => UNCHANGED db
       /\ \A w \in inflight \ inflight' :
             /\ \A u \in Users \ {w.user} :
                   carts'[u] = carts[u] /\ wallet'[u] = wallet[u]
             /\ w.kind = "cart" => wallet' = wallet
             /\ w.kind = "user" => carts' = carts]_vars

\* the checkout of one user has settled: that user's cart is cleared and
\* wallet debited, the other user's cart and wallet are as they were
C19_Witness ==
    \E u, v \in Users :
        /\ u # v /\ inflight = {}
        /\ \E p \in Procs : Done(p, "checkout") /\ usr[p] = u /\ result[p] = OK
        /\ carts[u] # <<>> /\ carts[u][1].cartItems = <<>>
        /\ wallet[u] < InitWallet(u)
        /\ carts[v] # <<>> /\ carts[v][1].cartItems # <<>>
        /\ wallet[v] = InitWallet(v)

\* C20: when the cart write of a successful checkout lands and removes items,
\* the total of the items it removes from the persisted cart is the amount
\* that checkout debited, whatever addProductToCart, updateProductInCart or
\* deleteProductFromCart calls for the user ran in between.
C20_ChargedWhatIsCleared ==
    [][\A w \in inflight \ inflight' :
          (/\ w.kind = "cart" /\ carts' # carts
           /\ Done(w.by, "checkout") /\ result[w.by] = OK /\ usr[w.by] = w.user
           /\ Cardinality({x \in inflight : x.kind = "cart" /\ x.by = w.by}) = 1) =>
              Reduce(carts[w.user][w.doc.idx].cartItems) = totalCartValue[w.by]]_vars

====
